---- MODULE Spec2Model ----
(***************************************************************************)
(* The s-rectangular robust Bellman update of CRAAM                        *)
(* (craam/optimization/srect_gurobi.hpp): srect_l1_solve_gurobi and        *)
(* srect_linf_solve_gurobi, one call at a time: the assertions, the        *)
(* construction of the linear program, the solver's answer and the         *)
(* extraction of the (objective, policy, budgets) tuple.                   *)
(*                                                                         *)
(* Numbers.  Probabilities (pbar, policy_eval, d, p) are integers counting *)
(* 1/Den; z, kappa and the weights w are integers.  The returned objective *)
(* counts 1/(4*Den*Den), a returned budget counts 1/Den.                   *)
(***************************************************************************)
EXTENDS Integers, Sequences, FiniteSets, TLC

\* ------------------------------------------------------------- bounds
MaxActions == 2
MaxStates == 2
MaxPairs == 3
MaxKappa == 2
MaxZ == 1
MaxWeight == 2
Den == 2

\* EPSILON = 1e-6 = 1 / EpsilonInv
EpsilonInv == 1000000

\* ------------------------------------------------------------- helpers
Abs(n) == IF n < 0 THEN -n ELSE n

SetMax(S) == CHOOSE m \in S : \A n \in S : n <= m

RECURSIVE SumSeq(_)
SumSeq(s) == IF s = <<>> THEN 0 ELSE Head(s) + SumSeq(Tail(s))

RECURSIVE SumOver(_, _)
\* the sum of f[k] over the finite set S of k
SumOver(f, S) ==
    IF S = {} THEN 0
    ELSE LET k == CHOOSE k \in S : TRUE IN f[k] + SumOver(f, S \ {k})

\* the function f with every value worked out once
Table(f) == f @@ <<>>

\* ------------------------------------------------------------- state
VARIABLES
    op,           \* "l1" (srect_l1_solve_gurobi) or "linf" (srect_linf_solve_gurobi)
    z,            \* numvecvec z
    pbar,         \* numvecvec pbar
    kappa,        \* prec_t kappa
    w,            \* numvecvec w; << >> is the default numvecvec(0)
    policy_eval,  \* numvec policy_eval; << >> is the default numvec(0)
    ndebug,       \* "either": no assert has failed so far; "defined": a failed
                  \* assert was passed over, so the build defines NDEBUG;
                  \* "undefined": a failed assert has aborted a call
    pc,           \* the place of the call
    modelCreated, \* a GRBModel has been constructed by this call
    held,         \* the GRBModel of this call: "none" before it is constructed,
                  \* "held" while it lives, "destroyed" once ~GRBModel has run,
                  \* "process_ended" when the program ended with it alive
    lp,           \* the model handed to Gurobi
    oob,          \* an element outside a vector's size has been read
    status,       \* GRB_IntAttr_Status after optimize()
    sol,          \* the solution Gurobi holds (NoSol when it holds none)
    err,          \* how the call failed ("none" while it has not)
    result,       \* the tuple returned (NoSol when none is)
    prev          \* what is remembered of the caller's previous call

inputs == <<op, z, pbar, kappa, w, policy_eval>>

vars == <<op, z, pbar, kappa, w, policy_eval, ndebug, pc, modelCreated, held, lp,
          oob, status, sol, err, result, prev>>

NoSol == [objective |-> 0, policy |-> <<>>, budgets |-> <<>>, some |-> FALSE]

NoPrev ==
    [some |-> FALSE, kappa |-> 0, objective |-> 0, status |-> "none",
     args |-> <<>>, lp |-> <<>>, sol |-> <<>>, result |-> <<>>]

NoLP ==
    [nx |-> 0, ny |-> 0, lambdaVarObj |-> 0, constrs |-> <<>>,
     obj |-> [x |-> <<>>, yp |-> <<>>, yn |-> <<>>, lambda |-> 0], i |-> 0]

\* ------------------------------------------------------------- is_probability_dist
\* std::abs(sum - 1.0) < EPSILON, with sum counting 1/Den
NearOne(sum) == Abs(sum - Den) * EpsilonInv < Den

IsProbabilityDist(v) ==
    IF v = <<>> THEN FALSE
    ELSE IF \E k \in 2..Len(v) : v[k] < 0 THEN FALSE
    ELSE NearOne(SumSeq(v))

\* ------------------------------------------------------------- the calls' common prefix
\* lines 88-89 and 276-277
ShapeAsserts == Len(pbar) = Len(z) /\ (w = <<>> \/ Len(w) = Len(z))

\* lines 92-100 and 280-291
nactions == Len(pbar)

statecounts == [a \in 1..nactions |-> Len(pbar[a])]

nstateactions == SumOver(statecounts, 1..nactions)

\* assert(c): passes when c holds; otherwise the program aborts, or, in a build
\* that defines NDEBUG, goes on
AssertOutcomes(c, nd) ==
    IF c THEN {"pass"}
    ELSE IF nd = "defined" THEN {"skip"}
    ELSE IF nd = "undefined" THEN {"abort"}
    ELSE {"abort", "skip"}

\* what is known of the build after an assert's outcome o
NdebugAfter(o, nd) == IF o = "skip" THEN "defined" ELSE nd

\* the reads z[actionid][stateid] and w[actionid][stateid] (1-based here); a
\* read outside a vector's size yields the value g
ZOut(a, s) == ~(a \in DOMAIN z /\ s \in DOMAIN z[a])

WOut(a, s) == ~(a \in DOMAIN w /\ s \in DOMAIN w[a])

ZAt(a, s, g) == IF ZOut(a, s) THEN g ELSE z[a][s]

WAt(a, s, g) == IF WOut(a, s) THEN g ELSE w[a][s]

\* what an out-of-range read of a double can yield
GarbageVals == 0..MaxZ

\* ------------------------------------------------------------- constraints
\* kind "P":      x[a] - yp[lo] + yn[lo] <= d[a] * coef
\* kind "budget": -lambda * coef + sum over i in lo..hi of (yp[i] + yn[i]) <= 0
\* kind "norm":   sum over a in lo..hi of d[a] = coef
\* kind "pin":    d[a] = coef                       (coef counts 1/Den)
\* name is the ConstrName given to addConstr ("" when none is given)
Constr(kind, name, a, lo, hi, coef) ==
    [kind |-> kind, name |-> name, a |-> a, lo |-> lo, hi |-> hi, coef |-> coef]

\* a weight that is 1.0 whatever w is
WeightOne(a, s, g) == 1

\* line 159: double weight = w.size() > 0 ? w[actionid][stateid] : 1.0
L1Weight(a, s, g) == IF Len(w) > 0 THEN WAt(a, s, g) ELSE 1

\* the weight of an action taken from w where w has one: the first of its row
LinfWeightFromW(a) ==
    IF a \in DOMAIN w /\ w[a] # <<>> THEN w[a][1] ELSE 1

\* line 337: double weight = 1.0
LinfWeight(a) == 1

\* lines 119 and 308: the objective coefficient given to lambda by addVar
LambdaVarObj == -kappa

\* lines 167 and 340: objective += -lambda * kappa
LambdaObjTerm == -kappa

\* the coefficient the function's documentation gives to yp[i]
YpObjDocumented(a, s) == pbar[a][s]

\* lines 153-154 and 324-325: the coefficients of yp[i] and yn[i]
YpObj(a, s) == -pbar[a][s]

YnObj(a, s) == pbar[a][s]

\* line 157 and 328: the factor of d[actionid] in constraint "P"
PCoef(a, s, g) == ZAt(a, s, g)

\* a model the call does not let go of: it is still held once the call is left
ModelKeptAfterUnwind(h) == h

\* a model that outlives the call: the constraints of the previous call's model
\* are still in it
NewModelRetained ==
    [nx |-> nactions, ny |-> nstateactions, lambdaVarObj |-> LambdaVarObj,
     constrs |-> IF prev.some THEN prev.lp.constrs ELSE <<>>,
     obj |-> [x |-> <<>>, yp |-> <<>>, yn |-> <<>>, lambda |-> 0], i |-> 0]

\* lines 103-124 and 294-313: GRBModel(env) with the variables x, yp, yn, lambda, d
NewModel ==
    [nx |-> nactions, ny |-> nstateactions, lambdaVarObj |-> LambdaVarObj,
     constrs |-> <<>>,
     obj |-> [x |-> <<>>, yp |-> <<>>, yn |-> <<>>, lambda |-> 0], i |-> 0]

\* lines 151-163: the inner loop of srect_l1_solve_gurobi from stateid = s - 1 on
RECURSIVE L1States(_, _, _, _)
L1States(a, s, m, g) ==
    IF s > statecounts[a] THEN m
    ELSE L1States(a, s + 1,
           [m EXCEPT
              !.obj.yp = Append(@, YpObj(a, s)),
              !.obj.yn = Append(@, YnObj(a, s)),
              !.constrs = @ \o << Constr("P", "P", a, m.i + 1, m.i + 1, PCoef(a, s, g)),
                                  Constr("budget", "psi", a, m.i + 1, m.i + 1,
                                         L1Weight(a, s, g)) >>,
              !.i = @ + 1], g)

\* lines 149-164: the outer loop from actionid = a - 1 on
RECURSIVE L1Actions(_, _, _)
L1Actions(a, m, g) ==
    IF a > nactions THEN m
    ELSE L1Actions(a + 1,
           L1States(a, 1, [m EXCEPT !.obj.x = Append(@, 1)], g), g)

\* lines 322-333: the inner loop of srect_linf_solve_gurobi
RECURSIVE LinfStates(_, _, _, _)
LinfStates(a, s, m, g) ==
    IF s > statecounts[a] THEN m
    ELSE LinfStates(a, s + 1,
           [m EXCEPT
              !.obj.yp = Append(@, YpObj(a, s)),
              !.obj.yn = Append(@, YnObj(a, s)),
              !.constrs = Append(@, Constr("P", "P", a, m.i + 1, m.i + 1,
                                           PCoef(a, s, g))),
              !.i = @ + 1], g)

\* lines 319-339: the outer loop; z_dual holds yp[i] + yn[i] of the action's states
RECURSIVE LinfActions(_, _, _)
LinfActions(a, m, g) ==
    IF a > nactions THEN m
    ELSE LET n == LinfStates(a, 1, [m EXCEPT !.obj.x = Append(@, 1)], g)
         IN  LinfActions(a + 1,
               [n EXCEPT !.constrs =
                  Append(@, Constr("budget", "theta", a, m.i + 1, n.i, LinfWeight(a)))],
               g)

\* a setObjective that keeps the coefficient addVar gave to lambda and adds the
\* objective's to it
SetObjectiveKeepingVarObj(m) ==
    [m EXCEPT !.obj.lambda = m.lambdaVarObj + @ + LambdaObjTerm]

\* model.setObjective(objective, GRB_MAXIMIZE) replaces the coefficients addVar gave
SetObjective(m) == [m EXCEPT !.obj.lambda = @ + LambdaObjTerm]

\* lines 144-170
L1Build(m, g) == SetObjective(L1Actions(1, m, g))

\* lines 314-348
LinfBuild(m, g) ==
    LET n == LinfActions(1, m, g)
    IN  SetObjective([n EXCEPT !.constrs =
                        Append(@, Constr("norm", "policy", 0, 1, nactions, 1))])

\* lines 128-142: the constraints on d
\* line 128
PolicyEvalSizeAssert == policy_eval = <<>> \/ Len(policy_eval) = Len(z)

\* line 131
PolicyEvalDistAssert == IsProbabilityDist(policy_eval)

\* lines 132-134
PinConstrs == [k \in 1..Len(policy_eval) |-> Constr("pin", "", k, 0, 0, policy_eval[k])]

\* lines 139-141
PiConstr == Constr("norm", "pi", 0, 1, nactions, 1)

\* some read in the loops is outside a vector's size
LoopReadsOut ==
    \E a \in 1..nactions : \E s \in 1..statecounts[a] :
        ZOut(a, s) \/ (op = "l1" /\ Len(w) > 0 /\ WOut(a, s))

\* ------------------------------------------------------------- the LP solver
\* model.optimize() on the model m.  Gurobi reports GRB_OPTIMAL with a primal
\* and a dual point that are feasible and whose objectives agree (LP duality);
\* GRB_SUBOPTIMAL with feasible points whose objectives do not agree;
\* GRB_INFEASIBLE, GRB_UNBOUNDED, GRB_INF_OR_UNBD or GRB_NUMERIC with no
\* solution.  The points are looked for on a grid: d, p, theta, u count 1/Den;
\* lambda and x count 1/(2*Den); yp and yn count 1/(4*Den); the primal
\* objective and ObjVal count 1/(4*Den*Den), the dual objective 1/(Den*Den).
LambdaMax == 2 * Den * MaxZ

ConstrsOf(m, kind) == {k \in DOMAIN m.constrs : m.constrs[k].kind = kind}

PairsOf(m, a) ==
    {m.constrs[k].lo : k \in {j \in ConstrsOf(m, "P") : m.constrs[j].a = a}}

\* the "P" constraint of the pair i, and its "budget" constraint
PConstrOf(m, i) == CHOOSE k \in ConstrsOf(m, "P") : m.constrs[k].lo = i

BudgetOf(m, i) ==
    CHOOSE k \in ConstrsOf(m, "budget") : i \in m.constrs[k].lo..m.constrs[k].hi

\* the shape the solver below understands
WellFormed(m) ==
    /\ Len(m.obj.x) = m.nx /\ Len(m.obj.yp) = m.ny /\ Len(m.obj.yn) = m.ny
    /\ \A i \in 1..m.ny :
         /\ Cardinality({k \in ConstrsOf(m, "P") : m.constrs[k].lo = i}) = 1
         /\ Cardinality({k \in ConstrsOf(m, "budget") :
                            i \in m.constrs[k].lo..m.constrs[k].hi}) = 1
         /\ m.constrs[PConstrOf(m, i)].a = m.constrs[BudgetOf(m, i)].a
    /\ \A k \in ConstrsOf(m, "P") :
         m.constrs[k].lo \in 1..m.ny /\ m.constrs[k].a \in 1..m.nx
    /\ \A k \in ConstrsOf(m, "budget") :
         m.constrs[k].lo >= 1 /\ m.constrs[k].hi <= m.ny
    /\ \A k \in ConstrsOf(m, "norm") :
         m.constrs[k].lo = 1 /\ m.constrs[k].hi = m.nx /\ m.constrs[k].coef = 1
    /\ Cardinality(ConstrsOf(m, "norm")) <= 1
    /\ ConstrsOf(m, "norm") = {} \/ ConstrsOf(m, "pin") = {}
    /\ \A k \in ConstrsOf(m, "pin") :
         /\ m.constrs[k].a \in 1..m.nx
         /\ \A j \in ConstrsOf(m, "pin") : m.constrs[j].a = m.constrs[k].a => j = k

HasNorm(m) == ConstrsOf(m, "norm") # {}

Pinned(m) == {m.constrs[k].a : k \in ConstrsOf(m, "pin")}

PinOf(m, a) == CHOOSE k \in ConstrsOf(m, "pin") : m.constrs[k].a = a

\* the functions from S to the naturals whose values sum to total
RECURSIVE CompFns(_, _)
CompFns(S, total) ==
    IF S = {} THEN (IF total = 0 THEN {<<>>} ELSE {})
    ELSE LET i == CHOOSE i \in S : TRUE
         IN  UNION {{(i :> v) @@ f : f \in CompFns(S \ {i}, total - v)} : v \in 0..total}

\* the unions of one function from each of the sets Fns[k], k in K
RECURSIVE ProdFns(_, _)
ProdFns(K, Fns) ==
    IF K = {} THEN {<<>>}
    ELSE LET k == CHOOSE k \in K : TRUE
         IN  UNION {{f @@ g : g \in ProdFns(K \ {k}, Fns)} : f \in Fns[k]}

\* the model m as the solver reads it: per action its pairs and its "budget"
\* constraints, per pair the factor of d in its "P" constraint, per "budget"
\* constraint its pairs and the factor of lambda, and the objective
Compile(m) ==
    LET P == ConstrsOf(m, "P")
        B == ConstrsOf(m, "budget")
    IN  [nx |-> m.nx,
         pairs |-> Table([a \in 1..m.nx |->
                            {m.constrs[k].lo : k \in {j \in P : m.constrs[j].a = a}}]),
         zc |-> Table([i \in 1..m.ny |-> m.constrs[PConstrOf(m, i)].coef]),
         groups |-> Table([a \in 1..m.nx |-> {g \in B : m.constrs[g].a = a}]),
         gpairs |-> Table([g \in B |-> m.constrs[g].lo..m.constrs[g].hi]),
         gcoef |-> Table([g \in B |-> m.constrs[g].coef]),
         cx |-> m.obj.x, cyp |-> m.obj.yp, cyn |-> m.obj.yn, clam |-> m.obj.lambda,
         norm |-> HasNorm(m),
         pin |-> Table([a \in Pinned(m) |-> m.constrs[PinOf(m, a)].coef])]

\* the d that satisfy the bounds d >= 0 and the "norm" and "pin" constraints
PrimalDs(c) ==
    IF c.norm THEN CompFns(1..c.nx, Den)
    ELSE LET Vals == [a \in 1..c.nx |->
                        IF a \in DOMAIN c.pin
                        THEN {[b \in {a} |-> c.pin[a]]}
                        ELSE {[b \in {a} |-> v] : v \in 0..Den}]
         IN  {d \in ProdFns(1..c.nx, Vals) : \A a \in 1..c.nx : d[a] >= 0}

\* max of cp*yp + cn*yn over yp, yn >= 0, yp + yn <= k, yp - yn >= r (r and k
\* count 1/(2*Den), yp and yn count 1/(4*Den)); {} when there is no such point
BestY(r, k, cp, cn) ==
    LET V == {<<0, 0>>, <<2 * k, 0>>, <<0, 2 * k>>, <<2 * r, 0>>, <<0, -2 * r>>,
              <<k + r, k - r>>}
        F == {v \in V : v[1] >= 0 /\ v[2] >= 0 /\ v[1] + v[2] <= 2 * k
                        /\ v[1] - v[2] >= 2 * r}
    IN  IF F = {} THEN {} ELSE {SetMax({cp * v[1] + cn * v[2] : v \in F})}

\* the best the variables x[a], yp, yn of action a can add to the objective,
\* given d[a] = dv and lambda = lam; {} when nothing on the grid is feasible
ActionBest(c, a, dv, lam) ==
    LET I == c.pairs[a]
        G == c.groups[a]
        Caps == [g \in G |-> CompFns(I \cap c.gpairs[g], c.gcoef[g] * lam)]
        Val(k, x) ==
            LET ys == Table([i \in I |->
                               BestY(x - 2 * c.zc[i] * dv, k[i], c.cyp[i], c.cyn[i])])
            IN  IF \E i \in I : ys[i] = {} THEN {}
                ELSE {2 * Den * c.cx[a] * x + SumOver([i \in I |-> SetMax(ys[i])], I)}
        Xs(k) == {2 * c.zc[i] * dv + j * k[i] : i \in I, j \in {-1, 0, 1}}
        all == UNION {UNION {Val(k, x) : x \in Xs(k)} : k \in ProdFns(G, Caps)}
    IN  IF all = {} THEN {} ELSE {SetMax(all)}

\* the dual values of the "P" constraints: p >= 0 with, for every action, the
\* column of x[a]: sum of p over the action's pairs = the coefficient of x[a]
DualPs(c) ==
    LET Rows == [a \in 1..c.nx |-> CompFns(c.pairs[a], c.cx[a] * Den)]
    IN  ProdFns(1..c.nx, Rows)

\* the least dual value of the "budget" constraint g given p: the columns of
\* yp[i] (-p + theta >= coefficient of yp) and yn[i] (p + theta >= coefficient
\* of yn), and theta >= 0
ThetaOf(c, g, p) ==
    SetMax({0} \cup UNION {{c.cyp[i] + p[i], c.cyn[i] - p[i]} : i \in c.gpairs[g]})

\* sum over the action's pairs of coef * p: the column of d[a]
QOf(c, a, p) == SumOver([i \in c.pairs[a] |-> c.zc[i] * p[i]], c.pairs[a])

\* p with its least thetas is dual feasible: the column of lambda, and the
\* columns of the d[a] no "norm" or "pin" constraint holds
DualFeasible(c, p) ==
    LET B == DOMAIN c.gcoef
    IN  /\ SumOver([g \in B |-> c.gcoef[g] * ThetaOf(c, g, p)], B) <= -c.clam * Den
        /\ c.norm => c.nx > 0
        /\ ~c.norm => \A a \in (1..c.nx) \ DOMAIN c.pin : QOf(c, a, p) <= 0
        /\ \A a \in DOMAIN c.pin : c.pin[a] >= 0

\* the dual objective at p, counting 1/(Den*Den)
DualValue(c, p) ==
    IF c.norm THEN Den * SetMax({QOf(c, a, p) : a \in 1..c.nx})
    ELSE SumOver([a \in DOMAIN c.pin |-> c.pin[a] * QOf(c, a, p)], DOMAIN c.pin)

\* the dual values of the "budget" constraints that go with p at a vertex: the
\* least ones, or the least ones with one of them raised by all the slack the
\* column of lambda leaves
ThetaChoices(c, p) ==
    LET B == DOMAIN c.gcoef
        least == Table([g \in B |-> ThetaOf(c, g, p)])
        slack == -c.clam * Den - SumOver([g \in B |-> c.gcoef[g] * least[g]], B)
    IN  {least} \cup
        {[least EXCEPT ![g] = @ + slack \div c.gcoef[g]] :
           g \in {h \in B : c.gcoef[h] > 0 /\ slack > 0 /\ slack % c.gcoef[h] = 0}}

\* GRB_DoubleAttr_Pi of constraint k of m at the dual point (p, th)
PiOf(m, c, k, p, th) ==
    LET r == m.constrs[k]
    IN  CASE r.kind = "P" -> p[r.lo]
          [] r.kind = "budget" -> th[k]
          [] r.kind = "norm" -> SetMax({QOf(c, a, p) : a \in 1..c.nx})
          [] r.kind = "pin" -> QOf(c, r.a, p)

\* the primal side of m on the grid: for every d that can be completed to a
\* feasible point, the best objective of such a point (counting 1/(4*Den*Den))
PrimalPoints(c) ==
    LET DVals == [a \in 1..c.nx |-> {d[a] : d \in PrimalDs(c)}]
        AT == Table([a \in 1..c.nx |-> Table([dv \in DVals[a] |->
                 Table([lam \in 0..LambdaMax |-> ActionBest(c, a, dv, lam)])])])
        PB(d) ==
            LET ok == {lam \in 0..LambdaMax : \A a \in 1..c.nx : AT[a][d[a]][lam] # {}}
            IN  IF ok = {} THEN {}
                ELSE {SetMax({SumOver([a \in 1..c.nx |-> SetMax(AT[a][d[a]][lam])],
                                      1..c.nx)
                              + 2 * Den * c.clam * lam : lam \in ok})}
        DB == Table([d \in PrimalDs(c) |-> PB(d)])
    IN  Table([d \in {e \in DOMAIN DB : DB[e] # {}} |-> SetMax(DB[d])])

\* the dual side: for every feasible p, the dual objective (counting 1/(Den*Den))
DualPoints(c) ==
    Table([p \in {q \in DualPs(c) : DualFeasible(c, q)} |-> DualValue(c, p)])

\* what Gurobi holds with the primal point of d, objective obj, and the dual
\* point (p, th)
Held(m, c, d, obj, p, th) ==
    [some |-> TRUE, objval |-> obj,
     X |-> [a \in 1..m.nx |-> d[a]],
     Pi |-> [k \in DOMAIN m.constrs |-> PiOf(m, c, k, p, th)]]

\* the optimal solutions on the grid: a primal and a dual point with equal
\* objectives ({} when there is no such pair on the grid)
Optima(m, c, PP, DP) ==
    UNION {UNION {{Held(m, c, d, PP[d], p, th) : th \in ThetaChoices(c, p)} :
                    p \in {q \in DOMAIN DP : 4 * DP[q] = PP[d]}} :
             d \in DOMAIN PP}

\* the sub-optimal solutions on the grid: a feasible primal and a feasible dual
\* point whose objectives differ
SubOptima(m, c, PP, DP) ==
    UNION {{Held(m, c, d, PP[d], p, Table([g \in DOMAIN c.gcoef |-> ThetaOf(c, g, p)])) :
              p \in {q \in DOMAIN DP : 4 * DP[q] > PP[d]}} :
             d \in DOMAIN PP}

NoSolution == [some |-> FALSE, objval |-> 0, X |-> <<>>, Pi |-> <<>>]

\* no d satisfies d >= 0 and the constraints on d (the other constraints can
\* always be met with x low enough)
PrimalInfeasible(m) ==
    \/ HasNorm(m) /\ m.nx = 0
    \/ \E k \in ConstrsOf(m, "pin") : m.constrs[k].coef < 0

\* a feasible model whose objective grows without limit: along x[a] when no
\* constraint holds x[a], along lambda when its coefficient is positive
PrimalUnbounded(m) ==
    /\ ~PrimalInfeasible(m)
    /\ \/ \E a \in 1..m.nx : m.obj.x[a] > 0 /\ PairsOf(m, a) = {}
       \/ m.obj.lambda > 0 /\ \A g \in ConstrsOf(m, "budget") : m.constrs[g].coef >= 0

\* what optimize() can leave behind: the status and the solution held
SolverOutcomes(m) ==
    {[status |-> "GRB_NUMERIC", sol |-> NoSolution]} \cup
    (IF ~WellFormed(m) THEN {}
     ELSE IF PrimalInfeasible(m)
     THEN {[status |-> st, sol |-> NoSolution] : st \in {"GRB_INFEASIBLE", "GRB_INF_OR_UNBD"}}
     ELSE IF PrimalUnbounded(m)
     THEN {[status |-> st, sol |-> NoSolution] : st \in {"GRB_UNBOUNDED", "GRB_INF_OR_UNBD"}}
     ELSE LET c == Compile(m)
              PP == PrimalPoints(c)
              DP == DualPoints(c)
          IN  {[status |-> "GRB_OPTIMAL", sol |-> s] : s \in Optima(m, c, PP, DP)}
              \cup {[status |-> "GRB_SUBOPTIMAL", sol |-> s] : s \in SubOptima(m, c, PP, DP)})

\* ------------------------------------------------------------- extraction
ConstrsNamed(m, name) ==
    SelectSeq([k \in DOMAIN m.constrs |-> k], LAMBDA k : m.constrs[k].name = name)

\* line 178: if (status != GRB_OPTIMAL) throw
L1StatusFails(st) == st # "GRB_OPTIMAL"

\* lines 181-184 and 354-357
PolicyRead(m, so) == [a \in 1..m.nx |-> so.X[a]]

\* budgets read by position: the duals of the first constraints of the model,
\* one for each pair
BudgetsByPosition(m, so) == [j \in 1..m.ny |-> so.Pi[j]]

\* lines 188-194: the duals of the constraints named "psi", in order
L1Budgets(m, so) ==
    LET ks == ConstrsNamed(m, "psi") IN [j \in 1..Len(ks) |-> so.Pi[ks[j]]]

\* lines 360-367: numvec budgets(nactions), filled from the constraints named "theta"
LinfBudgets(m, so) ==
    LET ks == ConstrsNamed(m, "theta")
    IN  [j \in 1..m.nx |-> IF j <= Len(ks) THEN so.Pi[ks[j]] ELSE 0]

\* lines 196 and 369: model.get(GRB_DoubleAttr_ObjVal)
ObjValRead(so) == so.objval

Solution(obj, pol, bud) ==
    [objective |-> obj, policy |-> pol, budgets |-> bud, some |-> TRUE]

\* ------------------------------------------------------------- the steps of a call
AssertFailures ==
    {"assert_shape", "assert_policy_eval_size", "assert_policy_eval_dist"}

\* the local `GRBModel model` when its scope is left by return or by an
\* exception: the destructor runs
ModelAfterUnwind(h) == IF h = "held" THEN "destroyed" ELSE h

\* the local model when abort() or a fault ends the program: no destructor runs
ModelAfterTermination(h) == IF h = "held" THEN "process_ended" ELSE h

Fail(e) ==
    /\ pc' = "failed" /\ err' = e
    /\ held' = IF e \in AssertFailures \cup {"segfault"}
               THEN ModelAfterTermination(held)
               ELSE ModelAfterUnwind(held)

\* lines 88-100 and 276-291
Enter ==
    /\ pc = "start"
    /\ \E o \in AssertOutcomes(ShapeAsserts, ndebug) :
         IF o = "abort"
         THEN Fail("assert_shape") /\ UNCHANGED ndebug
         ELSE pc' = "counted" /\ ndebug' = NdebugAfter(o, ndebug)
              /\ UNCHANGED <<err, held>>
    /\ UNCHANGED <<inputs, prev, modelCreated, lp, oob, status, sol, result>>

\* lines 103-124 and 294-313
CreateModel ==
    /\ pc = "counted"
    /\ modelCreated' = TRUE
    /\ held' = "held"
    /\ lp' = NewModel
    /\ pc' = IF op = "l1" THEN "policy" ELSE "loop"
    /\ UNCHANGED <<inputs, prev, ndebug, oob, status, sol, err, result>>

\* lines 126-142 of srect_l1_solve_gurobi
L1PolicyConstraints ==
    /\ pc = "policy"
    /\ \E o1 \in AssertOutcomes(PolicyEvalSizeAssert, ndebug) :
         IF o1 = "abort"
         THEN Fail("assert_policy_eval_size") /\ UNCHANGED <<ndebug, lp, oob>>
         ELSE IF policy_eval = <<>>
         THEN /\ lp' = [lp EXCEPT !.constrs = Append(@, PiConstr)]
              /\ pc' = "loop"
              /\ UNCHANGED <<ndebug, oob, err, held>>
         ELSE \E o2 \in AssertOutcomes(PolicyEvalDistAssert, NdebugAfter(o1, ndebug)) :
                IF o2 = "abort"
                THEN Fail("assert_policy_eval_dist") /\ UNCHANGED <<ndebug, lp, oob>>
                ELSE IF Len(policy_eval) > nactions
                THEN \* d[i] with i >= nactions is outside the array d
                     /\ oob' = TRUE
                     /\ \E e \in {"segfault", "GRBException"} : Fail(e)
                     /\ ndebug' = NdebugAfter(o2, NdebugAfter(o1, ndebug))
                     /\ UNCHANGED lp
                ELSE /\ lp' = [lp EXCEPT !.constrs = @ \o PinConstrs]
                     /\ pc' = "loop"
                     /\ ndebug' = NdebugAfter(o2, NdebugAfter(o1, ndebug))
                     /\ UNCHANGED <<oob, err, held>>
    /\ UNCHANGED <<inputs, prev, modelCreated, status, sol, result>>

\* lines 144-170 and 314-348
BuildLoop ==
    /\ pc = "loop"
    /\ IF LoopReadsOut
       THEN /\ oob' = TRUE
            /\ \E crash \in BOOLEAN : \E g \in GarbageVals :
                 IF crash THEN Fail("segfault") /\ UNCHANGED lp
                 ELSE /\ lp' = IF op = "l1" THEN L1Build(lp, g) ELSE LinfBuild(lp, g)
                      /\ pc' = "built"
                      /\ UNCHANGED <<err, held>>
       ELSE /\ lp' = IF op = "l1" THEN L1Build(lp, 0) ELSE LinfBuild(lp, 0)
            /\ pc' = "built"
            /\ UNCHANGED <<oob, err, held>>
    /\ UNCHANGED <<inputs, prev, ndebug, modelCreated, status, sol, result>>

\* lines 173 and 351: model.optimize()
Optimize ==
    /\ pc = "built"
    /\ \E o \in SolverOutcomes(lp) : status' = o.status /\ sol' = o.sol
    /\ pc' = "solved"
    /\ UNCHANGED <<inputs, prev, ndebug, modelCreated, held, lp, oob, err, result>>

\* lines 175-196 of srect_l1_solve_gurobi
L1Extract ==
    /\ pc = "solved" /\ op = "l1"
    /\ IF L1StatusFails(status)
       THEN Fail("invalid_argument") /\ UNCHANGED result
       ELSE /\ result' = Solution(ObjValRead(sol), PolicyRead(lp, sol), L1Budgets(lp, sol))
            /\ pc' = "returned"
            /\ held' = ModelAfterUnwind(held)
            /\ UNCHANGED err
    /\ UNCHANGED <<inputs, prev, ndebug, modelCreated, lp, oob, status, sol>>

\* lines 353-369 of srect_linf_solve_gurobi: the status is not read; get(X),
\* get(Pi) and get(ObjVal) throw a GRBException when Gurobi holds no solution
LinfExtract ==
    /\ pc = "solved" /\ op = "linf"
    /\ IF ~sol.some
       THEN Fail("GRBException") /\ UNCHANGED result
       ELSE /\ result' = Solution(ObjValRead(sol), PolicyRead(lp, sol),
                                  LinfBudgets(lp, sol))
            /\ pc' = "returned"
            /\ held' = ModelAfterUnwind(held)
            /\ UNCHANGED err
    /\ UNCHANGED <<inputs, prev, ndebug, modelCreated, lp, oob, status, sol>>

Next ==
    \/ Enter
    \/ CreateModel
    \/ L1PolicyConstraints
    \/ BuildLoop
    \/ Optimize
    \/ L1Extract
    \/ LinfExtract

\* ------------------------------------------------------------- the calls explored
Start(in) ==
    /\ op = in.op /\ z = in.z /\ pbar = in.pbar /\ kappa = in.kappa
    /\ w = in.w /\ policy_eval = in.policy_eval
    /\ ndebug = "either" /\ pc = "start" /\ modelCreated = FALSE /\ held = "none"
    /\ lp = NoLP
    /\ oob = FALSE /\ status = "none" /\ sol = NoSolution /\ err = "none"
    /\ result = NoSol /\ prev = NoPrev

Input(o, zz, pp, kk, ww, pe) ==
    [op |-> o, z |-> zz, pbar |-> pp, kappa |-> kk, w |-> ww, policy_eval |-> pe]
\* the vectors of the given length with entries in 0..total that sum to total
Vecs(len, total) == {v \in [1..len -> 0..total] : SumSeq(v) = total}

\* vectors that sum to one with one negative entry, the first or a later one
NegVecs(len) ==
    IF len < 2 THEN {}
    ELSE {[k \in 1..len |-> IF k = 1 THEN -1 ELSE IF k = 2 THEN Den + 1 ELSE 0],
          [k \in 1..len |-> IF k = 1 THEN Den + 1 ELSE IF k = 2 THEN -1 ELSE 0]}

\* an action of a well-formed call: a distribution pbar[a] and a row z[a] of its length
ActionRows ==
    UNION {{<<p, zr>> : p \in Vecs(len, Den), zr \in [1..len -> 0..MaxZ]} :
             len \in 1..MaxStates}

\* an action whose pbar[a] is no distribution: a wrong sum, a negative entry, no entry
BadActionRows ==
    {<< <<>>, <<>> >>} \cup
    UNION {{<<p, zr>> : p \in Vecs(len, Den - 1) \cup Vecs(len, Den + 1) \cup NegVecs(len),
                        zr \in [1..len -> 0..MaxZ]} : len \in 1..MaxStates}

Pairs(b) == SumOver([a \in DOMAIN b |-> Len(b[a][1])], DOMAIN b)

Bases == {b \in UNION {[1..n -> ActionRows] : n \in 0..MaxActions} : Pairs(b) <= MaxPairs}

BadBases ==
    {c \in {Append(b, r) : b \in {e \in Bases : Len(e) < MaxActions}, r \in BadActionRows} :
       Pairs(c) <= MaxPairs}

POf(b) == [a \in DOMAIN b |-> b[a][1]]

ZOf(b) == [a \in DOMAIN b |-> b[a][2]]

Kappas == (-1)..MaxKappa

Ops == {"l1", "linf"}

\* calls whose arguments are all well-formed but, possibly, kappa
PlainInputs ==
    {Input(o, ZOf(b), POf(b), k, <<>>, <<>>) : o \in Ops, b \in Bases, k \in Kappas}

\* weights of the shape of pbar: the same everywhere, or varying with the place
Weights(b) ==
    {[a \in DOMAIN b |-> [s \in DOMAIN b[a][1] |-> c]] : c \in {0, MaxWeight}}
    \cup {[a \in DOMAIN b |-> [s \in DOMAIN b[a][1] |-> (a + s) % (MaxWeight + 1)]]}

WeightInputs ==
    UNION {{Input("l1", ZOf(b), POf(b), k, ww, <<>>) : ww \in Weights(b), k \in Kappas}
           \cup {Input("linf", ZOf(b), POf(b), k,
                       [a \in DOMAIN b |-> [s \in DOMAIN b[a][1] |-> MaxWeight]], <<>>) :
                   k \in Kappas} :
             b \in Bases \ {<<>>}}

\* policy_eval for n actions: a distribution, a wrong sum, a negative entry, one
\* entry too few, one too many
PolicyEvals(n) ==
    Vecs(n, Den) \cup Vecs(n, Den - 1) \cup NegVecs(n)
    \cup (IF n >= 2 THEN Vecs(n - 1, Den) ELSE {})
    \cup {[k \in 1..(n + 1) |-> IF k = 1 THEN Den ELSE 0]}

PolicyEvalInputs ==
    UNION {{Input("l1", ZOf(b), POf(b), k, <<>>, pe) : pe \in PolicyEvals(Len(b)),
                                                       k \in Kappas} :
             b \in Bases \ {<<>>}}

\* calls with a pbar[a] that is no distribution
BadPbarInputs ==
    {Input(o, ZOf(b), POf(b), k, <<>>, <<>>) : o \in Ops, b \in BadBases, k \in Kappas}

DropLast(v) == SubSeq(v, 1, Len(v) - 1)

\* z of another shape than pbar: a row missing, the last row shorter, or longer
BadZs(b) ==
    LET zz == ZOf(b)
        n == Len(b)
    IN  {DropLast(zz), [zz EXCEPT ![n] = DropLast(@)], [zz EXCEPT ![n] = Append(@, 0)]}

\* w of another shape than pbar: a row missing, the last row shorter
BadWs(b) ==
    LET ww == [a \in DOMAIN b |-> [s \in DOMAIN b[a][1] |-> 1]]
        n == Len(b)
    IN  {DropLast(ww), [ww EXCEPT ![n] = DropLast(@)]}

BadShapeInputs ==
    UNION {{Input(o, zz, POf(b), k, <<>>, <<>>) : o \in Ops, zz \in BadZs(b), k \in Kappas}
           \cup {Input("l1", ZOf(b), POf(b), k, ww, <<>>) : ww \in BadWs(b), k \in Kappas} :
             b \in Bases \ {<<>>}}

Inputs ==
    PlainInputs \cup WeightInputs \cup PolicyEvalInputs \cup BadPbarInputs
    \cup BadShapeInputs

Init == \E in \in Inputs : Start(in)

Spec == Init /\ [][Next]_vars

\* ------------------------------------------------------------- two calls in a row
\* the caller, given a Solution, calls the same operation again with the same
\* z, pbar, w and policy_eval and a kappa that is no smaller; nothing of the
\* first call is kept but what the caller remembers of it
CallAgain ==
    /\ pc = "returned" /\ ~prev.some
    /\ \E k2 \in kappa..MaxKappa : kappa' = k2
    /\ prev' = [some |-> TRUE, kappa |-> kappa, objective |-> result.objective,
                status |-> status, args |-> inputs, lp |-> lp, sol |-> sol,
                result |-> result]
    /\ pc' = "start" /\ modelCreated' = FALSE /\ held' = "none" /\ lp' = NoLP
    /\ oob' = FALSE
    /\ status' = "none" /\ sol' = NoSolution /\ err' = "none" /\ result' = NoSol
    /\ UNCHANGED <<op, z, pbar, w, policy_eval, ndebug>>

NextTwo == Next \/ CallAgain

\* first calls with well-formed arguments
ValidInputs == {in \in PlainInputs \cup WeightInputs : in.kappa >= 0}

InitTwo == \E in \in ValidInputs : Start(in)

SpecTwoCalls == InitTwo /\ [][NextTwo]_vars

\* ------------------------------------------------------------- the same call twice
\* the caller, after a call that has returned or failed, makes the same call
\* again in the same build: every local of the first call (the model, the
\* status, the tuple) is gone, the arguments are the caller's
CallSame ==
    /\ pc \in {"returned", "failed"} /\ ~prev.some
    /\ prev' = [some |-> TRUE, kappa |-> kappa, objective |-> result.objective,
                status |-> status, args |-> inputs, lp |-> lp, sol |-> sol,
                result |-> result]
    /\ ndebug' = IF err \in AssertFailures THEN "undefined" ELSE ndebug
    /\ pc' = "start" /\ modelCreated' = FALSE /\ held' = "none" /\ lp' = NoLP
    /\ oob' = FALSE
    /\ status' = "none" /\ sol' = NoSolution /\ err' = "none" /\ result' = NoSol
    /\ UNCHANGED inputs

NextRepeat == Next \/ CallSame

\* the calls made twice: those of at most MaxRepeatPairs (action, outcome) pairs
MaxRepeatPairs == 2

RepeatInputs ==
    {in \in Inputs :
       SumOver([a \in DOMAIN in.pbar |-> Len(in.pbar[a])], DOMAIN in.pbar)
           <= MaxRepeatPairs}

InitRepeat == \E in \in RepeatInputs : Start(in)

SpecRepeat == InitRepeat /\ [][NextRepeat]_vars

\* ------------------------------------------------------------- another w
\* the w of one row per action the caller may pass instead: none, rows of the
\* lengths of pbar's of one weight, rows without entries
OtherWs ==
    {<<>>, [a \in 1..nactions |-> <<>>]}
    \cup {[a \in 1..nactions |-> [s \in 1..statecounts[a] |-> c]] : c \in {0, MaxWeight}}

\* the caller, after a call of srect_linf_solve_gurobi that has returned or
\* failed, calls it again with another w and everything else the same
CallOtherW ==
    /\ pc \in {"returned", "failed"} /\ ~prev.some /\ op = "linf"
    /\ \E ww \in OtherWs \ {w} : w' = ww
    /\ prev' = [some |-> TRUE, kappa |-> kappa, objective |-> result.objective,
                status |-> status, args |-> inputs, lp |-> lp, sol |-> sol,
                result |-> result]
    /\ ndebug' = IF err \in AssertFailures THEN "undefined" ELSE ndebug
    /\ pc' = "start" /\ modelCreated' = FALSE /\ held' = "none" /\ lp' = NoLP
    /\ oob' = FALSE
    /\ status' = "none" /\ sol' = NoSolution /\ err' = "none" /\ result' = NoSol
    /\ UNCHANGED <<op, z, pbar, kappa, policy_eval>>

\* the steps of srect_linf_solve_gurobi
NextLinf ==
    \/ Enter
    \/ CreateModel
    \/ BuildLoop
    \/ Optimize
    \/ LinfExtract
    \/ CallOtherW

\* first calls of srect_linf_solve_gurobi with a w of one row per action, or none
LinfInputs ==
    {in \in RepeatInputs :
       in.op = "linf" /\ (in.w = <<>> \/ Len(in.w) = Len(in.pbar))}

InitLinf == \E in \in LinfInputs : Start(in)

SpecOtherW == InitLinf /\ [][NextLinf]_vars

\* ------------------------------------------------------------- the specification's terms
Done == pc \in {"returned", "failed"}

\* a probability distribution: no negative entry, sum within EPSILON of 1
ValidDist(v) == (\A k \in DOMAIN v : v[k] >= 0) /\ NearOne(SumSeq(v))

PbarValid == \A a \in DOMAIN pbar : ValidDist(pbar[a])

\* pbar, z and (if supplied) w have the same shape, rows included
ShapesAgree ==
    /\ Len(z) = Len(pbar)
    /\ \A a \in DOMAIN pbar : Len(z[a]) = Len(pbar[a])
    /\ w = <<>> \/ (/\ Len(w) = Len(pbar)
                    /\ \A a \in DOMAIN pbar : Len(w[a]) = Len(pbar[a]))

PolicyEvalValid ==
    policy_eval = <<>> \/ (Len(policy_eval) = Len(pbar) /\ ValidDist(policy_eval))

InputsValid == ShapesAgree /\ PbarValid /\ PolicyEvalValid /\ kappa >= 0

\* the failures of the code in the specification's taxonomy: a failed assert
\* on the shapes is a ShapeMismatch, the failed assert on policy_eval an
\* InvalidDistribution, an exception after optimize() a solver error
FailureKind(e) ==
    CASE e \in {"assert_shape", "assert_policy_eval_size"} -> "ShapeMismatch"
      [] e = "assert_policy_eval_dist" -> "InvalidDistribution"
      [] e \in {"invalid_argument", "GRBException"} -> "SolverError"
      [] OTHER -> "none"

ValidationFailures == {"ShapeMismatch", "InvalidDistribution", "InvalidBudget"}

\* ------------------------------------------------------------- C1
\* C1: a call of either operation whose pbar has a row with a negative entry or
\* a sum outside 1 +/- EPSILON (its other arguments being well-formed) fails
\* with InvalidDistribution and returns no Solution.
C1_InvalidPbarRejected ==
    (Done /\ ~PbarValid /\ ShapesAgree /\ policy_eval = <<>> /\ kappa >= 0)
        => (pc = "failed" /\ FailureKind(err) = "InvalidDistribution")

\* ------------------------------------------------------------- C2
\* C2: every validation check (shapes, distributions, kappa >= 0) is made
\* before the LP model is constructed: no GRBModel exists for arguments that
\* fail a check, and no validation failure is reported once one exists.
C2_ValidationBeforeModel ==
    /\ modelCreated => InputsValid
    /\ (pc = "failed" /\ FailureKind(err) \in ValidationFailures) => ~modelCreated

\* ------------------------------------------------------------- C3
\* C3: when optimize() ends with a status other than GRB_OPTIMAL, the call
\* fails with a solver error and returns no Solution.
C3_NonOptimalFails ==
    (Done /\ status \notin {"none", "GRB_OPTIMAL"})
        => (pc = "failed" /\ FailureKind(err) = "SolverError")

\* ------------------------------------------------------------- C4
\* C4: when the shapes of z, pbar and (if supplied) w disagree, rows included,
\* the call fails with ShapeMismatch and reads no z[a][s] or w[a][s] outside a
\* row's length.
C4_ShapeMismatchRejected ==
    ~ShapesAgree
        => (~oob /\ (Done => (pc = "failed" /\ FailureKind(err) = "ShapeMismatch")))

\* ------------------------------------------------------------- C5
\* C5: a call of either operation with kappa < 0 (its other arguments being
\* well-formed) fails with InvalidBudget and returns no Solution.
C5_NegativeKappaRejected ==
    (Done /\ kappa < 0 /\ ShapesAgree /\ PbarValid /\ PolicyEvalValid)
        => (pc = "failed" /\ FailureKind(err) = "InvalidBudget")

\* ------------------------------------------------------------- C6
\* max over the actions a of z[a] . pbar[a], in the unit of the returned objective
NonRobustValue ==
    4 * Den * SetMax({SumOver([s \in DOMAIN pbar[a] |-> z[a][s] * pbar[a][s]],
                              DOMAIN pbar[a]) : a \in DOMAIN pbar})

\* C6: for kappa = 0 and well-formed arguments without policy_eval, the
\* objective either operation returns is the non-robust value
\* max_a z[a] . pbar[a].
C6_KappaZeroNonRobust ==
    (pc = "returned" /\ kappa = 0 /\ InputsValid /\ policy_eval = <<>>)
        => result.objective = NonRobustValue

\* ------------------------------------------------------------- C7
\* C7: when policy_eval is supplied to srect_l1_solve_gurobi and a Solution is
\* returned, the returned policy is policy_eval, entry by entry.
C7_PolicyPinned ==
    (pc = "returned" /\ op = "l1" /\ policy_eval # <<>>)
        => (/\ Len(result.policy) = Len(policy_eval)
            /\ \A a \in DOMAIN result.policy : result.policy[a] = policy_eval[a])

\* ------------------------------------------------------------- C8
\* C8: the policy of every returned Solution is a distribution over the
\* actions: one entry per action, no negative entry, sum within EPSILON of 1.
C8_PolicyIsDistribution ==
    pc = "returned"
        => (Len(result.policy) = Len(pbar) /\ ValidDist(result.policy))

\* ------------------------------------------------------------- C9
\* w is not supplied, or has the shape of pbar
WeightsDefined ==
    w = <<>> \/ (/\ Len(w) = Len(pbar)
                 /\ \A a \in DOMAIN pbar : Len(w[a]) = Len(pbar[a]))

\* weight(a, s) of the pairs in the order of the loops, for w of pbar's shape
RECURSIVE FlatWeights(_)
FlatWeights(a) ==
    IF a > Len(pbar) THEN <<>>
    ELSE [s \in DOMAIN pbar[a] |-> IF w = <<>> THEN 1 ELSE w[a][s]] \o FlatWeights(a + 1)

WeightedBudgets ==
    LET fw == FlatWeights(1)
    IN  SumOver([j \in DOMAIN result.budgets |-> fw[j] * result.budgets[j]],
                DOMAIN result.budgets)

C10_ObjectiveNonIncreasing ==
    (pc = "returned" /\ prev.some /\ InputsValid)
        => result.objective <= prev.objective

\* ------------------------------------------------------------- C11
\* C11: the budgets of every returned Solution, of either operation, are one
\* allocation per action: as many entries as pbar has rows.
C11_BudgetsPerAction ==
    pc = "returned" => Len(result.budgets) = Len(pbar)

\* ------------------------------------------------------------- C12
\* the model of the call in progress is complete
LpBuilt == pc \in {"built", "solved", "returned"} \/ status # "none"

PairIndex(a, s) == SumOver(statecounts, 1..(a - 1)) + s

\* the "P" constraints of the model that hold yp[i] and yn[i]: each reads
\* x[a] - yp[i] + yn[i] <= d[a] * coef, so yp is the y+ and yn the y- of the
\* specification
PConstrsWith(i) == {k \in ConstrsOf(lp, "P") : lp.constrs[k].lo = i}

L1ObjectiveShape ==
    /\ lp.obj.x = [a \in 1..nactions |-> 1]
    /\ Len(lp.obj.yp) = nstateactions /\ Len(lp.obj.yn) = nstateactions
    /\ lp.obj.lambda = -kappa
    /\ \A a \in 1..nactions : \A s \in 1..statecounts[a] :
         /\ Cardinality(PConstrsWith(PairIndex(a, s))) = 1
         /\ \A k \in PConstrsWith(PairIndex(a, s)) : lp.constrs[k].a = a

PinnedPerAction ==
    /\ Cardinality(ConstrsOf(lp, "pin")) = nactions
    /\ \A a \in 1..nactions :
         \E k \in ConstrsOf(lp, "pin") :
            /\ lp.constrs[k].a = a
            /\ a \in DOMAIN policy_eval /\ lp.constrs[k].coef = policy_eval[a]

\* the single normalization constraint sum_a d[a] = 1
NormalizedOnce ==
    /\ Cardinality(ConstrsOf(lp, "norm")) = 1
    /\ \A k \in ConstrsOf(lp, "norm") :
         lp.constrs[k].lo = 1 /\ lp.constrs[k].hi = nactions /\ lp.constrs[k].coef = 1

\* C15: the LP of srect_l1_solve_gurobi has exactly one of the two sets of
\* constraints on d, chosen by policy_eval alone: with policy_eval, one equality
\* d[a] = policy_eval[a] per action and no normalization; without it, the one
\* constraint sum_a d[a] = 1 and no pinning equality.
C15_PolicyConstraintSets ==
    (op = "l1" /\ (pc = "loop" \/ LpBuilt)) =>
        IF policy_eval # <<>>
        THEN PinnedPerAction /\ ConstrsOf(lp, "norm") = {}
        ELSE NormalizedOnce /\ ConstrsOf(lp, "pin") = {}

\* ------------------------------------------------------------- C16
\* the constraints of the model named "psi" that hold yp[i] and yn[i]
PsiConstrsWith(i) ==
    {k \in ConstrsOf(lp, "budget") :
       lp.constrs[k].name = "psi" /\ lp.constrs[k].lo = i /\ lp.constrs[k].hi = i}

\* C16: for every action a and every outcome s of it (the rows of pbar may
\* differ in length) srect_l1_solve_gurobi adds exactly one constraint
\* x[a] - yp[i] + yn[i] <= d[a] * z[a][s] and exactly one constraint
\* -lambda * weight(a, s) + yp[i] + yn[i] <= 0, with weight(a, s) = w[a][s] when
\* w is supplied and 1 otherwise; the index i is another one for every pair,
\* runs through 1..N in the order of the loops and has counted N pairs at the
\* end.  (z[a][s] and w[a][s] are meant where the vectors have such an element.)
C16_PairConstraints ==
    (op = "l1" /\ LpBuilt) =>
        /\ lp.i = nstateactions
        /\ Cardinality(ConstrsOf(lp, "P")) = nstateactions
        /\ Cardinality(ConstrsOf(lp, "budget")) = nstateactions
        /\ \A a \in 1..nactions : \A s \in 1..statecounts[a] :
             LET i == PairIndex(a, s)
             IN  /\ i \in 1..nstateactions
                 /\ \A b \in 1..nactions : \A t \in 1..statecounts[b] :
                      PairIndex(b, t) = i => (b = a /\ t = s)
                 /\ Cardinality(PConstrsWith(i)) = 1
                 /\ \A k \in PConstrsWith(i) :
                      /\ lp.constrs[k].a = a
                      /\ ~ZOut(a, s) => lp.constrs[k].coef = z[a][s]
                 /\ Cardinality(PsiConstrsWith(i)) = 1
                 /\ \A k \in PsiConstrsWith(i) :
                      /\ lp.constrs[k].a = a
                      /\ w = <<>> => lp.constrs[k].coef = 1
                      /\ (w # <<>> /\ ~WOut(a, s)) => lp.constrs[k].coef = w[a][s]

\* a model built by srect_l1_solve_gurobi for two actions with rows of
\* different lengths and weights w that are not all the same
C16_Witness ==
    /\ op = "l1" /\ pc = "built" /\ ~oob /\ nactions = 2
    /\ statecounts[1] # statecounts[2] /\ lp.i = 3
    /\ w # <<>> /\ \E k, j \in ConstrsOf(lp, "budget") :
                      lp.constrs[k].coef # lp.constrs[j].coef /\ lp.constrs[k].coef > 1
    /\ \E k \in ConstrsOf(lp, "P") : lp.constrs[k].coef # 0

\* ------------------------------------------------------------- C17
\* the constraints named "theta" of action a
ThetaConstrsOf(a) ==
    {k \in ConstrsOf(lp, "budget") : lp.constrs[k].name = "theta" /\ lp.constrs[k].a = a}

ThetaPerAction ==
    /\ Cardinality(ConstrsOf(lp, "budget")) = nactions
    /\ \A a \in 1..nactions :
         /\ Cardinality(ThetaConstrsOf(a)) = 1
         /\ \A k \in ThetaConstrsOf(a) :
              /\ lp.constrs[k].coef = 1
              /\ lp.constrs[k].lo..lp.constrs[k].hi =
                     {PairIndex(a, s) : s \in 1..statecounts[a]}

C19_ProbabilityDistCheck ==
    /\ (op = "l1" /\ policy_eval # <<>> /\ modelCreated /\ pc # "policy")
          => (IsProbabilityDist(policy_eval) <=> ValidDist(policy_eval))
    /\ (op = "l1" /\ ndebug = "either" /\ (pc = "loop" \/ LpBuilt))
          => \A k \in DOMAIN policy_eval : policy_eval[k] >= 0

====
